---- MODULE Spec2Model ----
(***************************************************************************)
(* A model of the Mandelbrot zoom renderer (src/src/main.rs): the          *)
(* escape-time evaluator, the frame renderer and the winit event loop      *)
(* that advances the zoom and redraws.                                     *)
(*                                                                         *)
(* f64 values are modelled as fixed-point integers: the real number r is   *)
(* the integer r * Scale, and every f64 multiplication or division rounds  *)
(* its result to the nearest representable value, as the hardware does.    *)
(* The 800x600 surface is scaled down to WIDTH x HEIGHT pixels.            *)
(***************************************************************************)
EXTENDS Integers, Naturals, Sequences, FiniteSets, TLC

\* ------------------------------------------------------------------------
\* Bounds of the model
\* ------------------------------------------------------------------------

\* Surface width in pixels (800 in the program).
WIDTH == 8

\* Surface height in pixels (600 in the program).
HEIGHT == 6

\* Fixed-point denominator: the f64 value 1.0 is the integer Scale.
Scale == 1024

\* The event loop handles at most this many zoom-advancing input ticks.
MaxTicks == 3

\* ------------------------------------------------------------------------
\* Program constants
\* ------------------------------------------------------------------------

MAX_ITER == 100

\* ZOOM_SPEED = 1.01 = ZoomSpeedNum / ZoomSpeedDen
ZoomSpeedNum == 101

ZoomSpeedDen == 100

\* ------------------------------------------------------------------------
\* f64 arithmetic, fixed-point
\* ------------------------------------------------------------------------

\* The one element of a singleton set.  TLC evaluates an operator argument
\* each time it is used, while a bound variable holds a value: the recursive
\* definitions below bind their argument with  v \in {arg}  and take the
\* one result.
TheOne(S) == CHOOSE r \in S : TRUE

\* a / b for b > 0, rounded to the nearest integer
RDivPos(a, b) == (2 * a + b) \div (2 * b)

\* a / b for b # 0, rounded to the nearest integer
RDiv(a, b) == IF b < 0 THEN RDivPos(-a, -b) ELSE RDivPos(a, b)

\* the f64 product a * b
FMul(a, b) == RDiv(a * b, Scale)

\* the f64 quotient a / b
FDiv(a, b) == RDiv(a * Scale, b)

\* `k as f64` for an integer k
ToF(k) == k * Scale

\* ------------------------------------------------------------------------
\* Mandelbrot::mandelbrot, the escape-time evaluator
\* ------------------------------------------------------------------------

\* z.norm() > 2.0 with z = re + im*i: the comparison of the squares
NormGt2(z) == z.re * z.re + z.im * z.im > 4 * Scale * Scale

\* z * z + c  (num::Complex multiplication and addition)
ZSquaredPlusC(z, c) ==
    [re |-> FMul(z.re, z.re) - FMul(z.im, z.im) + c.re,
     im |-> FMul(z.re, z.im) + FMul(z.im, z.re) + c.im]

\* The pixel's point of the complex plane (lines 101-108).
PixelToComplex(cx, cy, zm, x, y) ==
    LET aspect_ratio == FDiv(ToF(WIDTH), ToF(HEIGHT))
        zoom_width   == FDiv((5 * Scale) \div 2, zm)
        x_coord == cx + FMul(FDiv(FMul(ToF(x) - FDiv(ToF(WIDTH), ToF(2)),
                                       zoom_width),
                                  ToF(WIDTH)),
                             aspect_ratio)
        y_coord == cy + FDiv(FMul(ToF(y) - FDiv(ToF(HEIGHT), ToF(2)),
                                  zoom_width),
                             ToF(HEIGHT))
    IN  [re |-> x_coord, im |-> y_coord]

\* LoopBody with the count returned one too high: return n + 1
LoopBodyOffByOne(s) ==
    IF s.ret THEN s
    ELSE IF NormGt2(s.z)
         THEN [s EXCEPT !.ret = TRUE, !.m = s.n + 1, !.iters = s.iters + 1]
         ELSE [s EXCEPT !.n = s.n + 1, !.z = ZSquaredPlusC(s.z, s.c),
                        !.iters = s.iters + 1]

\* LoopBody with the update before the test:
\* z = z * z + c; if z.norm() > 2.0 { return n; }
LoopBodyCheckAfter(s) ==
    IF s.ret THEN s
    ELSE LET z1 == ZSquaredPlusC(s.z, s.c)
         IN  IF NormGt2(z1)
             THEN [s EXCEPT !.ret = TRUE, !.m = s.n, !.z = z1,
                            !.iters = s.iters + 1]
             ELSE [s EXCEPT !.n = s.n + 1, !.z = z1, !.iters = s.iters + 1]

\* One iteration of  for n in 0..MAX_ITER { if z.norm() > 2.0 { return n; }
\* z = z * z + c; }  on the loop state s: s.ret is set once the loop has
\* returned, and s.iters counts the iterations begun.
LoopBody(s) ==
    IF s.ret THEN s
    ELSE IF NormGt2(s.z)
         THEN [s EXCEPT !.ret = TRUE, !.m = s.n, !.iters = s.iters + 1]
         ELSE [s EXCEPT !.n = s.n + 1, !.z = ZSquaredPlusC(s.z, s.c),
                        !.iters = s.iters + 1]

\* k iterations of the loop in a row, from the loop state s; none is run
\* once the loop has returned.  (Halving k keeps the evaluation shallow.)
RECURSIVE LoopTimes(_, _)
LoopTimes(s, k) ==
    TheOne({ IF v.ret \/ k <= 0 THEN v
             ELSE IF k = 1 THEN LoopBody(v)
             ELSE LoopTimes(LoopTimes(v, k \div 2), k - (k \div 2))
             : v \in {s} })

\* EscapeLoop with z starting at c instead of 0
EscapeLoopFromC(c) ==
    LET s0 == [n |-> 0, z |-> c, c |-> c, ret |-> FALSE, m |-> 0, iters |-> 0]
    IN  TheOne({ [m |-> IF s.ret THEN s.m ELSE MAX_ITER, iters |-> s.iters]
                 : s \in {LoopTimes(s0, MAX_ITER)} })

\* The loop of lines 111-118 from z = 0, and the  return MAX_ITER  after it
EscapeLoop(c) ==
    LET s0 == [n |-> 0, z |-> [re |-> 0, im |-> 0], c |-> c, ret |-> FALSE,
               m |-> 0, iters |-> 0]
    IN  TheOne({ [m |-> IF s.ret THEN s.m ELSE MAX_ITER, iters |-> s.iters]
                 : s \in {LoopTimes(s0, MAX_ITER)} })

\* The evaluator's run on pixel (x, y) under the view (cx, cy, zm): the
\* count it returns (m) and the loop iterations it took (iters).
MandelbrotRun(cx, cy, zm, x, y) ==
    EscapeLoop(PixelToComplex(cx, cy, zm, x, y))

\* Mandelbrot::mandelbrot(&self, x, y)
mandelbrot(cx, cy, zm, x, y) == MandelbrotRun(cx, cy, zm, x, y).m

\* ------------------------------------------------------------------------
\* Mandelbrot::draw, the frame renderer
\* ------------------------------------------------------------------------

Min(a, b) == IF a < b THEN a ELSE b

\* a * b in u32.  The product of two factors below U32ExactBelow = 2^15 is
\* below 2^30 and the multiplication is exact.
U32ExactBelow == 2^15

MulU32(a, b) == a * b

\* `v as u8` for a u32 v: the low eight bits
AsU8(v) == v % 256

\* Rgba without the clamps to 255
RgbaNoClamp(m) ==
    IF m = MAX_ITER
    THEN <<0, 0, 0, 255>>
    ELSE <<AsU8(MulU32(m, 255) \div 50), AsU8(MulU32(m, 255) \div 100), 0, 255>>

\* the rgba array of lines 131-142 for the iteration count m
Rgba(m) ==
    IF m = MAX_ITER
    THEN <<0, 0, 0, 255>>
    ELSE <<AsU8(Min(255, MulU32(m, 255) \div 50)),
           AsU8(Min(255, MulU32(m, 255) \div 100)),
           0,
           255>>

\* x and y of the i-th chunk (lines 126-127)
PixelX(i) == i % WIDTH

\* PixelY dividing by the height instead of the width
PixelYByHeight(i) == i \div HEIGHT

PixelY(i) == i \div WIDTH

\* The number of chunks frame.chunks_exact_mut(4) yields for a buffer of
\* len bytes: the remainder of fewer than 4 bytes is left out.
NumChunks(len) == len \div 4

\* The byte offsets of the i-th chunk of chunks_exact_mut(4): 4i .. 4i+3
ChunkBytes(i) == (4 * i) .. (4 * i + 3)

\* pixel.copy_from_slice(&rgba) on the i-th chunk of buf
CopyToChunk(buf, i, rgba) ==
    [k \in DOMAIN buf |->
        IF k \in ChunkBytes(i) THEN rgba[(k - 4 * i) + 1] ELSE buf[k]]

\* One iteration of the loop of draw: the i-th chunk of buf under the view.
DrawPixel(buf, i, cx, cy, zm) ==
    CopyToChunk(buf, i, Rgba(mandelbrot(cx, cy, zm, PixelX(i), PixelY(i))))

\* The iterations lo .. hi-1 of the loop of draw on the buffer buf, whose
\* chunks are 0 .. NumChunks-1
RECURSIVE DrawRange(_, _, _, _, _, _)
DrawRange(buf, lo, hi, cx, cy, zm) ==
    TheOne({ IF lo >= hi \/ hi > NumChunks(Cardinality(DOMAIN b)) THEN b
             ELSE IF hi = lo + 1 THEN DrawPixel(b, lo, cx, cy, zm)
             ELSE DrawRange(DrawRange(b, lo, (lo + hi) \div 2, cx, cy, zm),
                            (lo + hi) \div 2, hi, cx, cy, zm)
             : b \in {buf} })

\* Mandelbrot::draw(&self, frame): the buffer after the whole loop
draw(buf, cx, cy, zm) ==
    DrawRange(buf, 0, NumChunks(Cardinality(DOMAIN buf)), cx, cy, zm)

\* ------------------------------------------------------------------------
\* State
\* ------------------------------------------------------------------------

VARIABLES
    center_x,          \* mandelbrot.center_x
    center_y,          \* mandelbrot.center_y
    zoom,              \* mandelbrot.zoom
    frame,             \* the bytes of pixels.frame_mut(), offsets 0 .. len-1
    pc,                \* the event loop: "idle" between callbacks, "draw"
                       \* inside draw, "exited" after elwt.exit()
    idx,               \* the chunk index of the loop of draw
    redraw_requested,  \* window.request_redraw() is pending
    ticks,             \* history: input ticks handled that did not ask to exit
    drawn,             \* history: a draw has begun
    byteWrites,        \* history: writes to each byte offset in this draw
    outside,           \* history: this draw wrote outside the buffer
    iters,             \* history: escape-loop iterations of this draw
    zoomSeen,          \* history: the zoom values the pixels of this draw saw
    advSince,          \* history: zoom advances since the last draw began
    frameAdv,          \* history: advSince when this draw began
    frameZoom,         \* history: zoom when this draw began
    prevFrameZoom,     \* history: zoom when the draw before it began
    call,              \* function harness: the call made
    ret                \* function harness: what it returned

view == <<center_x, center_y, zoom>>

loopVars == <<pc, idx, redraw_requested>>

drawHist == <<byteWrites, outside, iters, zoomSeen>>

frameHist == <<drawn, frameAdv, frameZoom, prevFrameZoom>>

harness == <<call, ret>>

vars == <<center_x, center_y, zoom, frame, pc, idx, redraw_requested, ticks,
          drawn, byteWrites, outside, iters, zoomSeen, advSince, frameAdv,
          frameZoom, prevFrameZoom, call, ret>>

\* Pixels::new(WIDTH, HEIGHT, ..): the buffer holds WIDTH * HEIGHT * 4 bytes
FrameLen == WIDTH * HEIGHT * 4

\* a zeroed buffer of len bytes
ZeroBuffer(len) == [k \in 0 .. (len - 1) |-> 0]

\* Mandelbrot::new(): center (-1.25, 0.0), zoom 1.0
New == [center_x |-> -RDiv(5 * Scale, 4), center_y |-> 0, zoom |-> Scale]

Init ==
    /\ center_x = New.center_x
    /\ center_y = New.center_y
    /\ zoom = New.zoom
    /\ frame = ZeroBuffer(FrameLen)
    /\ pc = "idle"
    /\ idx = 0
    /\ redraw_requested = FALSE
    /\ ticks = 0
    /\ drawn = FALSE
    /\ byteWrites = [k \in 0 .. (FrameLen - 1) |-> 0]
    /\ outside = FALSE
    /\ iters = 0
    /\ zoomSeen = {}
    /\ advSince = 0
    /\ frameAdv = 0
    /\ frameZoom = New.zoom
    /\ prevFrameZoom = New.zoom
    /\ call = [op |-> "none"]
    /\ ret = [outcome |-> "none"]

\* ------------------------------------------------------------------------
\* The event loop (main, lines 44-80)
\* ------------------------------------------------------------------------

\* HostIdle were the host to deliver events while the closure still runs
HostAlways == TRUE

\* The host calls the closure with one event at a time: the next event is
\* delivered only after the closure has returned, and none after exit.
HostIdle == pc = "idle"

\* mandelbrot.zoom *= ZOOM_SPEED
AdvanceZoom(zm) == RDiv(zm * ZoomSpeedNum, ZoomSpeedDen)

\* RedrawRequested advancing the zoom itself, once per frame, before draw
RedrawRequestedAdvancing ==
    /\ HostIdle
    /\ pc' = "draw"
    /\ idx' = 0
    /\ redraw_requested' = FALSE
    /\ drawn' = TRUE
    /\ byteWrites' = [k \in DOMAIN frame |-> 0]
    /\ outside' = FALSE
    /\ iters' = 0
    /\ zoomSeen' = {}
    /\ frameAdv' = advSince
    /\ advSince' = 0
    /\ prevFrameZoom' = frameZoom
    /\ zoom' = AdvanceZoom(zoom)
    /\ frameZoom' = zoom'
    /\ UNCHANGED <<center_x, center_y, frame, ticks, harness>>

\* Event::WindowEvent { event: WindowEvent::RedrawRequested } arrives, from
\* request_redraw or from the window system: the closure enters draw.
RedrawRequested ==
    /\ HostIdle
    /\ pc' = "draw"
    /\ idx' = 0
    /\ redraw_requested' = FALSE
    /\ drawn' = TRUE
    /\ byteWrites' = [k \in DOMAIN frame |-> 0]
    /\ outside' = FALSE
    /\ iters' = 0
    /\ zoomSeen' = {}
    /\ frameAdv' = advSince
    /\ advSince' = 0
    /\ prevFrameZoom' = frameZoom
    /\ frameZoom' = zoom
    /\ UNCHANGED <<view, frame, ticks, harness>>

\* One iteration of the loop of draw (lines 125-145).
DrawStep ==
    /\ pc = "draw"
    /\ idx < NumChunks(Cardinality(DOMAIN frame))
    /\ frame' = DrawPixel(frame, idx, center_x, center_y, zoom)
    /\ idx' = idx + 1
    /\ byteWrites' = [k \in DOMAIN frame |->
                         IF k \in ChunkBytes(idx) THEN byteWrites[k] + 1
                                               ELSE byteWrites[k]]
    /\ outside' = (outside \/ ~(ChunkBytes(idx) \subseteq DOMAIN frame))
    /\ iters' = iters + MandelbrotRun(center_x, center_y, zoom,
                                      PixelX(idx), PixelY(idx)).iters
    /\ zoomSeen' = zoomSeen \cup {zoom}
    /\ UNCHANGED <<view, pc, redraw_requested, ticks, advSince, frameHist,
                   harness>>

\* DrawDone with the zoom advanced at the end of each frame
DrawDoneAdvancing ==
    /\ pc = "draw"
    /\ idx >= NumChunks(Cardinality(DOMAIN frame))
    /\ \E renderOk \in BOOLEAN :
          pc' = IF renderOk THEN "idle" ELSE "exited"
    /\ zoom' = AdvanceZoom(zoom)
    /\ UNCHANGED <<center_x, center_y, frame, idx, redraw_requested, ticks,
                   advSince, drawHist, frameHist, harness>>

\* draw has returned; pixels.render() succeeds or fails (lines 52-55), and
\* input.update(&event) is false for a window event.
DrawDone ==
    /\ pc = "draw"
    /\ idx >= NumChunks(Cardinality(DOMAIN frame))
    /\ \E renderOk \in BOOLEAN :
          pc' = IF renderOk THEN "idle" ELSE "exited"
    /\ UNCHANGED <<view, frame, idx, redraw_requested, ticks, advSince,
                   drawHist, frameHist, harness>>

\* InputTick with the zoom advanced before the close check
InputTickAdvanceFirst ==
    /\ HostIdle
    /\ \E exitReq \in BOOLEAN, resized \in BOOLEAN, resizeOk \in BOOLEAN :
          /\ ticks < MaxTicks
          /\ zoom' = AdvanceZoom(zoom)
          /\ IF exitReq
             THEN /\ pc' = "exited"
                  /\ UNCHANGED <<redraw_requested, ticks, advSince>>
             ELSE /\ ticks' = ticks + 1
                  /\ advSince' = advSince + 1
                  /\ IF resized /\ ~resizeOk
                     THEN /\ pc' = "exited"
                          /\ UNCHANGED redraw_requested
                     ELSE /\ pc' = pc
                          /\ redraw_requested' = TRUE
    /\ UNCHANGED <<center_x, center_y, frame, idx, drawHist, frameHist, harness>>

\* Event::AboutToWait arrives: input.update(&event) is true (lines 59-79).
\* exitReq: Escape was pressed or close was requested; resized: the window
\* was resized; resizeOk: pixels.resize_surface succeeded.
InputTick ==
    /\ HostIdle
    /\ \E exitReq \in BOOLEAN, resized \in BOOLEAN, resizeOk \in BOOLEAN :
          IF exitReq
          THEN /\ pc' = "exited"
               /\ UNCHANGED <<zoom, redraw_requested, ticks, advSince>>
          ELSE /\ ticks < MaxTicks
               /\ zoom' = AdvanceZoom(zoom)
               /\ ticks' = ticks + 1
               /\ advSince' = advSince + 1
               /\ IF resized /\ ~resizeOk
                  THEN /\ pc' = "exited"
                       /\ UNCHANGED redraw_requested
                  ELSE /\ pc' = pc
                       /\ redraw_requested' = TRUE
    /\ UNCHANGED <<center_x, center_y, frame, idx, drawHist, frameHist, harness>>

Next == RedrawRequested \/ DrawStep \/ DrawDone \/ InputTick

Spec == Init /\ [][Next]_vars

\* The closure is ordinary sequential code: once in draw it keeps running.
FairSpec == Spec /\ WF_vars(DrawStep) /\ WF_vars(DrawDone)

\* ------------------------------------------------------------------------
\* The evaluator and the renderer as functions of their inputs
\* ------------------------------------------------------------------------

\* The harness makes one call, from the state after construction.
NoCallYet == call.op = "none"

\* zoom values: 0.5, 1.0, 1.01, 2.0, 8.0 and the non-positive -1.0
ZoomInputs == {Scale \div 2, Scale, AdvanceZoom(Scale), 2 * Scale, 8 * Scale,
               -Scale}

\* buffer lengths: the documented one, shorter ones, and ones that are no
\* multiple of four
BufferLens == {0, 3, 4, 6, FrameLen - 4, FrameLen - 1, FrameLen}

\* self.mandelbrot(x, y) with self.zoom = zm; no statement of lines 100-119
\* can panic, so the call returns. c is the mapped point, for reference.
CallMandelbrot ==
    /\ NoCallYet
    /\ \E x \in 0 .. (WIDTH - 1), y \in 0 .. (HEIGHT - 1), zm \in ZoomInputs :
        LET run == MandelbrotRun(center_x, center_y, zm, x, y)
        IN  /\ call' = [op |-> "mandelbrot", x |-> x, y |-> y, zoom |-> zm]
            /\ ret' = [outcome |-> "returned", m |-> run.m,
                       iters |-> run.iters,
                       c |-> PixelToComplex(center_x, center_y, zm, x, y)]
            /\ UNCHANGED <<view, frame, loopVars, ticks, drawHist, advSince,
                           frameHist>>

\* the rgba expression of draw (lines 131-142) for an iteration count n
CallRgba ==
    /\ NoCallYet
    /\ \E n \in 0 .. MAX_ITER :
        /\ call' = [op |-> "rgba", n |-> n]
        /\ ret' = [outcome |-> "returned", rgba |-> Rgba(n),
                   product |-> MulU32(n, 255)]
        /\ UNCHANGED <<view, frame, loopVars, ticks, drawHist, advSince,
                       frameHist>>

\* self.draw(frame) on a zeroed buffer of len bytes with self.zoom = zm; no
\* statement of lines 124-146 can panic, so the call returns.
CallDraw ==
    /\ NoCallYet
    /\ \E len \in BufferLens, zm \in ZoomInputs :
        /\ call' = [op |-> "draw", len |-> len, zoom |-> zm]
        /\ ret' = [outcome |-> "returned",
                   frame |-> draw(ZeroBuffer(len), center_x, center_y, zm)]
        /\ UNCHANGED <<view, frame, loopVars, ticks, drawHist, advSince,
                       frameHist>>

NextFn == CallMandelbrot \/ CallRgba \/ CallDraw

SpecFn == Init /\ [][NextFn]_vars

\* ------------------------------------------------------------------------
\* Definitions the properties use
\* ------------------------------------------------------------------------

\* z after k updates  z = z * z + c  from z0
RECURSIVE Iterate(_, _, _)
Iterate(z0, c, k) ==
    TheOne({ IF k <= 0 THEN z
             ELSE IF k = 1 THEN ZSquaredPlusC(z, c)
             ELSE Iterate(Iterate(z, c, k \div 2), c, k - (k \div 2))
             : z \in {z0} })

\* the value of z that loop iteration n tests, were no earlier one to return
Orbit(c, n) == Iterate([re |-> 0, im |-> 0], c, n)

\* loop iteration n sees |z| > 2.0
SawEscape(c, n) == NormGt2(Orbit(c, n))

\* the four bytes of pixel p of a buffer
PixelAt(buf, p) == <<buf[4 * p], buf[4 * p + 1], buf[4 * p + 2], buf[4 * p + 3]>>

Black == <<0, 0, 0, 255>>

\* 1.0 * 1.01^k by k f64 multiplications
RECURSIVE ZoomPow(_)
ZoomPow(k) ==
    IF k <= 0 THEN Scale
    ELSE RDiv(ZoomPow(k - 1) * ZoomSpeedNum, ZoomSpeedDen)

\* ------------------------------------------------------------------------
\* C1
\* ------------------------------------------------------------------------

\* C1: for every pixel of the surface and every zoom > 0 the evaluator
\* returns a count in 0 .. MAX_ITER; it returns MAX_ITER only when none of
\* the MAX_ITER loop iterations saw |z| > 2.0, and otherwise the index of
\* the first iteration that saw |z| > 2.0.
C1_EvaluatorResult ==
    (call.op = "mandelbrot" /\ call.zoom > 0) =>
        /\ ret.outcome = "returned"
        /\ ret.m \in 0 .. MAX_ITER
        /\ (ret.m = MAX_ITER) =>
              \A n \in 0 .. (MAX_ITER - 1) : ~SawEscape(ret.c, n)
        /\ (ret.m < MAX_ITER) =>
              /\ SawEscape(ret.c, ret.m)
              /\ \A n \in 0 .. (ret.m - 1) : ~SawEscape(ret.c, n)

\* The evaluator has run with zoom > 0 and returned both kinds of result:
\* here an escape after several iterations.
C1_Witness ==
    /\ call.op = "mandelbrot"
    /\ call.zoom > 0
    /\ ret.m > 5
    /\ ret.m < MAX_ITER

\* ------------------------------------------------------------------------
\* C2
\* ------------------------------------------------------------------------

\* C2: for every count n in 0 .. MAX_ITER the four bytes of a pixel are
\* (0, 0, 0, 255) when n = MAX_ITER and otherwise
\* (min(255, n*255/50), min(255, n*255/100), 0, 255) with truncating
\* division; red is 255 exactly for 50 <= n < 100 and below 255 for n < 50,
\* the clamp of green never triggers, the product n*255 stays within the
\* range where the u32 multiplication is exact, and the conversion to a
\* byte changes no value.
C2_ColorMapping ==
    (call.op = "rgba") =>
        LET n     == call.n
            red   == ret.rgba[1]
            green == ret.rgba[2]
        IN  /\ (n = MAX_ITER) => ret.rgba = <<0, 0, 0, 255>>
            /\ (n < MAX_ITER) =>
                  /\ ret.rgba = <<Min(255, (n * 255) \div 50),
                                  Min(255, (n * 255) \div 100), 0, 255>>
                  /\ (n >= 50) <=> (red = 255)
                  /\ green < 255
                  /\ (n * 255) \div 100 < 255
            /\ \A b \in 1 .. 4 : ret.rgba[b] \in 0 .. 255
            /\ ret.product = n * 255
            /\ n < U32ExactBelow /\ 255 < U32ExactBelow

\* The mapping has been applied at the threshold n = 50, where red first
\* reaches 255 through the clamp (50 * 255 / 50 = 255).
C2_Witness ==
    /\ call.op = "rgba"
    /\ call.n = 50
    /\ ret.rgba = <<255, 127, 0, 255>>

\* ------------------------------------------------------------------------
\* C4
\* ------------------------------------------------------------------------

\* C4 as stated: a pixel whose mapped point c has |c| > 2 makes the
\* evaluator return 0.
C4_ReturnsZero ==
    (call.op = "mandelbrot" /\ NormGt2(ret.c)) => ret.m = 0

\* C4 amended: a pixel whose mapped point c has |c| > 2 makes the evaluator
\* return 1: iteration 0 tests z = 0, iteration 1 tests z = c.
C4_ReturnsOne ==
    (call.op = "mandelbrot" /\ NormGt2(ret.c)) => ret.m = 1

\* The evaluator has run on a pixel whose point lies outside the circle of
\* radius 2.
C4_Witness ==
    /\ call.op = "mandelbrot"
    /\ NormGt2(ret.c)
    /\ ret.m = 1
    /\ ret.iters = 2

\* ------------------------------------------------------------------------
\* C5
\* ------------------------------------------------------------------------

\* C5: a violated precondition ends the call in an error: draw on a buffer
\* shorter than WIDTH * HEIGHT * 4 bytes or of a length that is no multiple
\* of four, and the evaluator with zoom <= 0, do not return normally.
C5_PreconditionFailureSignalled ==
    ( \/ /\ call.op = "draw"
          /\ (call.len < FrameLen \/ call.len % 4 # 0)
      \/ /\ call.op = "mandelbrot"
          /\ call.zoom <= 0 )
    => ret.outcome # "returned"

\* ------------------------------------------------------------------------
\* C10
\* ------------------------------------------------------------------------

\* C10: a rendered pixel is opaque black exactly when the evaluator returned
\* MAX_ITER for it: the evaluator never returns 0, so every escaped pixel
\* has a count in 1 .. MAX_ITER - 1 and a red byte of at least 5.
C10_BlackIffInSet ==
    /\ (call.op = "mandelbrot") => ret.m >= 1
    /\ (call.op = "draw") =>
          \A p \in 0 .. (NumChunks(call.len) - 1) :
              LET m == mandelbrot(center_x, center_y, call.zoom,
                                  p % WIDTH, p \div WIDTH)
                  px == PixelAt(ret.frame, p)
              IN  /\ (px = Black) <=> (m = MAX_ITER)
                  /\ (m # MAX_ITER) => (m \in 1 .. (MAX_ITER - 1) /\ px[1] >= 5)

\* A whole frame has been drawn that holds both a black pixel and an
\* escaped one.
C10_Witness ==
    /\ call.op = "draw"
    /\ call.len = FrameLen
    /\ \E p, q \in 0 .. (NumChunks(call.len) - 1) :
          /\ PixelAt(ret.frame, p) = Black
          /\ PixelAt(ret.frame, q)[1] >= 5

\* ------------------------------------------------------------------------
\* C3
\* ------------------------------------------------------------------------

\* a draw has begun and has returned
FrameComplete == drawn /\ pc # "draw"

\* C3: after draw on the buffer of WIDTH * HEIGHT * 4 bytes every pixel has
\* been written exactly once, the four bytes of pixel p hold the colour of
\* the pixel at (p % WIDTH, p / WIDTH), the map from index to coordinates
\* is a bijection onto the surface, and no byte outside the buffer was
\* touched.
C3_BufferComplete ==
    FrameComplete =>
        LET Pixels == 0 .. (WIDTH * HEIGHT - 1)
            Coords == {<<PixelX(p), PixelY(p)>> : p \in Pixels}
        IN  /\ DOMAIN frame = 0 .. (WIDTH * HEIGHT * 4 - 1)
            /\ \A k \in DOMAIN frame : byteWrites[k] = 1
            /\ ~outside
            /\ \A p \in Pixels :
                  PixelAt(frame, p) =
                      Rgba(mandelbrot(center_x, center_y, frameZoom,
                                      p % WIDTH, p \div WIDTH))
            /\ Coords = (0 .. (WIDTH - 1)) \X (0 .. (HEIGHT - 1))
            /\ Cardinality(Coords) = Cardinality(Pixels)

\* A frame is complete and shows both the set and its surroundings.
C3_Witness ==
    /\ FrameComplete
    /\ pc = "idle"
    /\ \E p, q \in 0 .. (WIDTH * HEIGHT - 1) :
          /\ PixelAt(frame, p) = Black
          /\ PixelAt(frame, q)[1] > 0

\* ------------------------------------------------------------------------
\* C6
\* ------------------------------------------------------------------------

C8_FrameConditions ==
    /\ [](center_x = New.center_x /\ center_y = New.center_y)
    /\ [][ /\ (pc = "draw" \/ pc' = "draw") => UNCHANGED view
           /\ (frame' # frame) => (pc = "draw" /\ UNCHANGED view)
           /\ (zoom' # zoom) =>
                 (pc = "idle" /\ UNCHANGED <<center_x, center_y, frame>>) ]_vars

\* A frame was drawn, and then the zoom advanced with the frame in place.
C8_Witness ==
    /\ drawn
    /\ pc = "idle"
    /\ advSince >= 1
    /\ zoom > frameZoom
    /\ PixelAt(frame, 0)[4] = 255

\* ------------------------------------------------------------------------
\* C9
\* ------------------------------------------------------------------------

\* C9: a draw that has begun terminates and runs to completion before any
\* other event is handled: it takes at most MAX_ITER escape-loop iterations
\* per pixel and WIDTH * HEIGHT * MAX_ITER in all, every pixel of a frame
\* sees the same zoom, and no frame is left partially written.
C9_DrawRunsToCompletion ==
    /\ []( /\ iters <= idx * MAX_ITER
           /\ iters <= WIDTH * HEIGHT * MAX_ITER
           /\ zoomSeen \subseteq {frameZoom}
           /\ (pc = "draw") => (zoom = frameZoom /\ idx <= WIDTH * HEIGHT)
           /\ FrameComplete =>
                 (idx = WIDTH * HEIGHT /\ \A k \in DOMAIN frame : byteWrites[k] = 1) )
    /\ [][ (pc = "draw") =>
             /\ UNCHANGED <<view, ticks, redraw_requested, advSince>>
             /\ \/ pc' = "draw" /\ idx' = idx + 1
                \/ pc' # "draw" /\ idx' = idx /\ idx = WIDTH * HEIGHT ]_vars
    /\ ((pc = "draw") ~> (pc # "draw"))

\* A draw is under way on a zoomed view and has met a pixel of the set,
\* whose loop ran all MAX_ITER iterations.
C9_Witness ==
    /\ pc = "draw"
    /\ idx > 0
    /\ idx < WIDTH * HEIGHT
    /\ ticks >= 1
    /\ iters >= MAX_ITER

====
